---- MODULE Spec2Model ----
(***************************************************************************)
(* Model of src/src/lib/userManager.ts (class UserManager): one profile    *)
(* store over the browser's localStorage.                                  *)
(*                                                                         *)
(* and of src/src/lib/gameEngine.ts (class GameEngine: start, stop and the  *)
(* animation-frame loop).                                                  *)
(*                                                                         *)
(* JavaScript numbers are IEEE-754 doubles.  The scores, the counters of   *)
(* games, experience and level stay integers far below 2^53, where double  *)
(* arithmetic is exact, and are modelled by TLA+ integers.  averageScore   *)
(* is the result of a division, and a play time is a number of seconds     *)
(* that need not be whole: averageScore, the playTime argument and the     *)
(* totalPlayTime fields are modelled by binary64 values with their 53-bit  *)
(* significand and round-to-nearest-even (section "binary64").             *)
(***************************************************************************)
EXTENDS Integers, Sequences, FiniteSets, TLC

\* ------------------------------------------------------------------------
\* Natural numbers as sequences of digits of DigitBits bits, least
\* significant digit first and without a high zero digit (TLC's integers
\* are 32 bits wide, a significand is 53).
\* ------------------------------------------------------------------------

Abs(x) == IF x < 0 THEN 0 - x ELSE x

Zeros(k) == [i \in 1..k |-> 0]

DigitBits == 15

Base == 2 ^ DigitBits

\* a without its high zero digits
RECURSIVE TrimD(_)
TrimD(a) ==
  IF a = <<>> THEN <<>>
  ELSE IF a[Len(a)] # 0 THEN a
  ELSE TrimD(SubSeq(a, 1, Len(a) - 1))

RECURSIVE DigitsOf(_)
DigitsOf(k) == IF k = 0 THEN <<>> ELSE <<k % Base>> \o DigitsOf(k \div Base)

\* the value of a, for an a below 2^31
RECURSIVE DigitsVal(_)
DigitsVal(a) == IF a = <<>> THEN 0 ELSE a[1] + Base * DigitsVal(Tail(a))

\* a + b + c over digits
RECURSIVE AddD(_, _, _)
AddD(a, b, c) ==
  IF a = <<>> /\ b = <<>> THEN DigitsOf(c)
  ELSE LET x == IF a = <<>> THEN 0 ELSE a[1]
           y == IF b = <<>> THEN 0 ELSE b[1]
       IN  <<(x + y + c) % Base>>
             \o AddD(IF a = <<>> THEN <<>> ELSE Tail(a),
                     IF b = <<>> THEN <<>> ELSE Tail(b), (x + y + c) \div Base)

AddDigits(a, b) == AddD(a, b, 0)

\* a - b - c over digits, for a >= b + c
RECURSIVE SubD(_, _, _)
SubD(a, b, c) ==
  IF a = <<>> THEN <<>>
  ELSE LET y == IF b = <<>> THEN 0 ELSE b[1]
       IN  <<(a[1] - y - c) % Base>>
             \o SubD(Tail(a), IF b = <<>> THEN <<>> ELSE Tail(b),
                     IF a[1] - y - c < 0 THEN 1 ELSE 0)

\* a - b for a >= b
SubDigits(a, b) == TrimD(SubD(a, b, 0))

\* a < b from digit i down, for a and b of one length
RECURSIVE LessFrom(_, _, _)
LessFrom(a, b, i) ==
  IF i = 0 THEN FALSE
  ELSE IF a[i] # b[i] THEN a[i] < b[i]
  ELSE LessFrom(a, b, i - 1)

\* a < b
LessDigits(a, b) ==
  IF Len(a) # Len(b) THEN Len(a) < Len(b) ELSE LessFrom(a, b, Len(a))

\* a * k + c over digits, for the small k
RECURSIVE MulD(_, _, _)
MulD(a, k, c) ==
  IF a = <<>> THEN DigitsOf(c)
  ELSE <<(a[1] * k + c) % Base>> \o MulD(Tail(a), k, (a[1] * k + c) \div Base)

MulSmall(a, k) == TrimD(MulD(a, k, 0))

\* long division over digits of a by the small n > 0, from the most
\* significant digit: [q |-> quotient digits, r |-> remainder]
RECURSIVE DivD(_, _)
DivD(a, n) ==
  IF a = <<>> THEN [q |-> <<>>, r |-> 0]
  ELSE LET hi == DivD(Tail(a), n)
       IN  [q |-> <<(hi.r * Base + a[1]) \div n>> \o hi.q,
            r |-> (hi.r * Base + a[1]) % n]

DivSmall(a, n) ==
  LET d == DivD(a, n) IN [q |-> TrimD(d.q), r |-> d.r]

\* the number of bits of the digit v
RECURSIVE DigitLen(_)
DigitLen(v) == IF v = 0 THEN 0 ELSE 1 + DigitLen(v \div 2)

\* the number of bits of a
BitLen(a) ==
  IF a = <<>> THEN 0 ELSE DigitBits * (Len(a) - 1) + DigitLen(a[Len(a)])

\* the number of low zero bits of the digit v # 0
RECURSIVE DigitLowZeros(_)
DigitLowZeros(v) == IF v % 2 = 1 THEN 0 ELSE 1 + DigitLowZeros(v \div 2)

\* the number of low zero bits of a # 0
RECURSIVE LowZeros(_)
LowZeros(a) ==
  IF a[1] # 0 THEN DigitLowZeros(a[1]) ELSE DigitBits + LowZeros(Tail(a))

\* a * 2^k
ShiftLeft(a, k) ==
  IF a = <<>> THEN <<>>
  ELSE Zeros(k \div DigitBits) \o MulD(a, 2 ^ (k % DigitBits), 0)

\* [q |-> a \div 2^k, r |-> a % 2^k # 0]
ShiftRight(a, k) ==
  LET skip == k \div DigitBits
  IN  IF skip >= Len(a) THEN [q |-> <<>>, r |-> a # <<>>]
      ELSE LET d == DivD(SubSeq(a, skip + 1, Len(a)), 2 ^ (k % DigitBits))
           IN  [q |-> TrimD(d.q),
                r |-> d.r # 0 \/ \E i \in 1..skip : a[i] # 0]

\* ------------------------------------------------------------------------
\* binary64: a finite double is (-1)^neg * m * 2^e, m a natural of at most
\* Precision bits.  Canonical form: m is odd (no low zero bit), and zero is
\* [neg |-> FALSE, m |-> <<>>, e |-> 0].  The exponent range and the sign of
\* zero play no part at the magnitudes reached here.
\* ------------------------------------------------------------------------

Precision == 53

FZero == [neg |-> FALSE, m |-> <<>>, e |-> 0]

Canon(neg, a, e) ==
  LET t   == TrimD(a)
      low == LowZeros(t)
  IN  IF t = <<>> THEN FZero
      ELSE [neg |-> neg, m |-> ShiftRight(t, low).q, e |-> e + low]

\* the double nearest to (-1)^neg * (a + f) * 2^e, ties to even, where
\* 0 <= f < 1 with (f # 0) = sticky
RoundF(neg, a, e, sticky) ==
  IF BitLen(a) <= Precision THEN Canon(neg, a, e)
  ELSE LET d       == BitLen(a) - Precision
           low     == ShiftRight(a, d - 1)
           guard   == low.q[1] % 2
           kept    == ShiftRight(low.q, 1).q
           rest    == sticky \/ low.r
           roundUp == guard = 1 /\ (rest \/ kept[1] % 2 = 1)
           rounded == IF roundUp THEN AddD(kept, <<>>, 1) ELSE kept
       IN  Canon(neg, rounded, e + d)

FromInt(s) == Canon(s < 0, DigitsOf(Abs(s)), 0)

\* x * k in double arithmetic, k a non-negative integer
FMulInt(x, k) == RoundF(x.neg, MulSmall(x.m, k), x.e, FALSE)

\* x + s in double arithmetic, s an integer
FAddInt(x, s) ==
  LET E  == IF x.e < 0 THEN x.e ELSE 0
      ax == ShiftLeft(x.m, x.e - E)
      as == ShiftLeft(DigitsOf(Abs(s)), 0 - E)
      sn == s < 0
  IN  IF x.neg = sn \/ ax = <<>> \/ as = <<>>
        THEN RoundF(IF ax = <<>> THEN sn ELSE x.neg,
                    AddDigits(ax, as), E, FALSE)
      ELSE IF LessDigits(ax, as)
        THEN RoundF(sn, SubDigits(as, ax), E, FALSE)
      ELSE RoundF(x.neg, SubDigits(ax, as), E, FALSE)

\* x + y in double arithmetic
FAdd(x, y) ==
  LET E  == IF x.e < y.e THEN x.e ELSE y.e
      ax == ShiftLeft(x.m, x.e - E)
      ay == ShiftLeft(y.m, y.e - E)
  IN  IF x.neg = y.neg \/ ax = <<>> \/ ay = <<>>
        THEN RoundF(IF ax = <<>> THEN y.neg ELSE x.neg,
                    AddDigits(ax, ay), E, FALSE)
      ELSE IF LessDigits(ax, ay)
        THEN RoundF(y.neg, SubDigits(ay, ax), E, FALSE)
      ELSE RoundF(x.neg, SubDigits(ax, ay), E, FALSE)

\* x <= y: the sign of the rounded difference is the sign of the difference
FLessEq(x, y) ==
  LET diff == FAdd(x, [y EXCEPT !.neg = ~y.neg])
  IN  diff.m = <<>> \/ diff.neg

\* Math.floor(x) as an integer
FFloor(x) ==
  IF x.e >= 0
    THEN (IF x.neg THEN 0 - 1 ELSE 1) * DigitsVal(ShiftLeft(x.m, x.e))
  ELSE LET whole == DigitsVal(ShiftRight(x.m, 0 - x.e).q)
       IN  IF x.neg THEN 0 - (whole + 1) ELSE whole

\* extra quotient bits computed before rounding a division
DivGuardBits == 64

\* x / n in double arithmetic, n a positive integer
FDivInt(x, n) ==
  IF x.m = <<>> THEN FZero
  ELSE LET d == DivSmall(ShiftLeft(x.m, DivGuardBits), n)
       IN  RoundF(x.neg, d.q, x.e - DivGuardBits, d.r # 0)

\* ------------------------------------------------------------------------
\* Data model (interfaces Achievement, GameStats, UserProfile)
\* ------------------------------------------------------------------------

\* the keys of UserProfile.gameStats, in the order Object.values visits them
GameKinds == <<"snake", "tetris", "pong", "memory", "platformer">>

Games == {GameKinds[i] : i \in 1..Len(GameKinds)}

\* A property that holds no value reads as undefined; a Date is its time
\* value in milliseconds; Date.prototype.toJSON gives the ISO-8601 string of
\* that time value; JSON.stringify omits a property whose value is undefined.
Undefined == [kind |-> "undefined", ms |-> 0]

DateOf(t) == [kind |-> "Date", ms |-> t]

IsoString(t) == [kind |-> "string", ms |-> t]

Absent == [kind |-> "absent", ms |-> 0]

Null == [kind |-> "null"]

getDefaultGameStats ==
  [gamesPlayed |-> 0, totalPlayTime |-> FZero, highScore |-> 0,
   averageScore |-> FZero, achievements |-> <<>>, lastPlayed |-> Undefined]

DefaultAchievement(id, name, description, icon) ==
  [id |-> id, name |-> name, description |-> description, icon |-> icon,
   unlocked |-> FALSE, unlockedAt |-> Undefined]

getDefaultAchievements ==
  << DefaultAchievement("first_game", "First Steps", "Play your first game", "U+1F3AE"),
     DefaultAchievement("speed_demon", "Speed Demon", "Score 1000+ points in Snake", "U+26A1"),
     DefaultAchievement("tetris_master", "Tetris Master", "Clear 10 lines in Tetris", "U+1F9F1"),
     DefaultAchievement("memory_champion", "Memory Champion",
                        "Complete Memory game in under 30 seconds", "U+1F9E0"),
     DefaultAchievement("platformer_pro", "Platformer Pro", "Reach level 5 in Platformer", "U+1F3C3"),
     DefaultAchievement("pong_champion", "Pong Champion", "Score 10 points in Pong", "U+1F3D3"),
     DefaultAchievement("dedicated_player", "Dedicated Player", "Play for 1 hour total", "U+23F0"),
     DefaultAchievement("game_master", "Game Master", "Play all 5 games", "U+1F451") >>

\* the profile createUser builds at time t
NewUser(username, t) ==
  [id |-> <<"user_", t>>, username |-> username, avatar |-> "U+1F3AE",
   level |-> 1, experience |-> 0, totalGamesPlayed |-> 0,
   totalPlayTime |-> FZero, joinDate |-> DateOf(t),
   gameStats |-> [g \in Games |-> getDefaultGameStats],
   globalAchievements |-> getDefaultAchievements]

\* ------------------------------------------------------------------------
\* updateGameStats and checkAchievements, as functions of the profile
\* ------------------------------------------------------------------------

\* mutant: the comparison with the stored high score is missing
HighScoreAfter_LastScore(highScore, score) == score

\* if (score > gameStats.highScore) gameStats.highScore = score
HighScoreAfter(highScore, score) ==
  IF score > highScore THEN score ELSE highScore

\* mutant: the old average is not weighted by the number of earlier games
AverageAfter_Unweighted(averageScore, gamesPlayed, score) ==
  FDivInt(FAddInt(averageScore, score), gamesPlayed)

\* (averageScore * (gamesPlayed - 1) + score) / gamesPlayed, gamesPlayed
\* already incremented; three double operations, each rounded
AverageAfter(averageScore, gamesPlayed, score) ==
  FDivInt(FAddInt(FMulInt(averageScore, gamesPlayed - 1), score), gamesPlayed)

\* mutant: the play time earns no experience
ExperienceGain_ScoreOnly(score, playTime) == score \div 10

\* mutant: Math.round in place of Math.floor
ExperienceGain_Rounded(score, playTime) ==
  ((score + 5) \div 10)
    + FFloor(FAdd(FDivInt(playTime, 60), FDivInt(FromInt(1), 2)))

\* Math.floor(score / 10) + Math.floor(playTime / 60)
ExperienceGain(score, playTime) ==
  (score \div 10) + FFloor(FDivInt(playTime, 60))

\* mutant: the level is recomputed without the raise-only test
LevelAfter_Recomputed(level, experience) == (experience \div 100) + 1

\* const newLevel = Math.floor(experience / 100) + 1;
\* if (newLevel > level) level = newLevel
LevelAfter(level, experience) ==
  LET newLevel == (experience \div 100) + 1
  IN  IF newLevel > level THEN newLevel ELSE level

\* mutant: the test for an already unlocked achievement is missing
unlockAchievement_Again(user, achievementId, t) ==
  [user EXCEPT !.globalAchievements =
     [i \in 1..Len(@) |->
        IF @[i].id = achievementId
          THEN [@[i] EXCEPT !.unlocked = TRUE, !.unlockedAt = DateOf(t)]
        ELSE @[i]]]

unlockAchievement(user, achievementId, t) ==
  [user EXCEPT !.globalAchievements =
     [i \in 1..Len(@) |->
        IF @[i].id = achievementId /\ ~@[i].unlocked
          THEN [@[i] EXCEPT !.unlocked = TRUE, !.unlockedAt = DateOf(t)]
        ELSE @[i]]]

\* mutant: the filter on gamesPlayed is missing
DistinctGamesPlayed_Unfiltered(user) == Len(GameKinds)

\* Object.values(gameStats).filter(stats => stats.gamesPlayed > 0).length
DistinctGamesPlayed(user) ==
  Cardinality({i \in 1..Len(GameKinds) : user.gameStats[GameKinds[i]].gamesPlayed > 0})

\* the achievement of the game-specific switch and its condition
GameAchievement(game) ==
  CASE game = "snake"      -> "speed_demon"
    [] game = "tetris"     -> "tetris_master"
    [] game = "pong"       -> "pong_champion"
    [] game = "memory"     -> "memory_champion"
    [] game = "platformer" -> "platformer_pro"

\* mutant: the thresholds are compared strictly
GameThresholdMet_Strict(game, score, playTime) ==
  CASE game = "snake"      -> score > 1000
    [] game = "tetris"     -> score > 1000
    [] game = "pong"       -> score > 10
    [] game = "memory"     -> ~FLessEq(FromInt(30), playTime)
    [] game = "platformer" -> score > 5000

GameThresholdMet(game, score, playTime) ==
  CASE game = "snake"      -> score >= 1000
    [] game = "tetris"     -> score >= 1000
    [] game = "pong"       -> score >= 10
    [] game = "memory"     -> FLessEq(playTime, FromInt(30))
    [] game = "platformer" -> score >= 5000

checkAchievements(user, game, score, playTime, t) ==
  LET u1 == IF user.totalGamesPlayed = 1
              THEN unlockAchievement(user, "first_game", t) ELSE user
      u2 == IF GameThresholdMet(game, score, playTime)
              THEN unlockAchievement(u1, GameAchievement(game), t) ELSE u1
      u3 == IF FLessEq(FromInt(3600), u2.totalPlayTime)
              THEN unlockAchievement(u2, "dedicated_player", t) ELSE u2
  IN  IF DistinctGamesPlayed(u3) = 5
        THEN unlockAchievement(u3, "game_master", t) ELSE u3

\* mutant: the profile's totalPlayTime is not updated
UpdatedUser_TotalTimeKept(user, game, score, playTime, t) ==
  LET old   == user.gameStats[game]
      stats == [old EXCEPT
                  !.gamesPlayed   = old.gamesPlayed + 1,
                  !.totalPlayTime = FAdd(old.totalPlayTime, playTime),
                  !.lastPlayed    = DateOf(t),
                  !.highScore     = HighScoreAfter(old.highScore, score),
                  !.averageScore  = AverageAfter(old.averageScore,
                                                 old.gamesPlayed + 1, score)]
      exp   == user.experience + ExperienceGain(score, playTime)
      u     == [user EXCEPT
                  !.gameStats[game]  = stats,
                  !.totalGamesPlayed = user.totalGamesPlayed + 1,
                  !.experience       = exp,
                  !.level            = LevelAfter(user.level, exp)]
  IN  checkAchievements(u, game, score, playTime, t)

\* mutant: the five games share one GameStats object
UpdatedUser_SharedStats(user, game, score, playTime, t) ==
  LET old   == user.gameStats[game]
      stats == [old EXCEPT
                  !.gamesPlayed   = old.gamesPlayed + 1,
                  !.totalPlayTime = FAdd(old.totalPlayTime, playTime),
                  !.lastPlayed    = DateOf(t),
                  !.highScore     = HighScoreAfter(old.highScore, score),
                  !.averageScore  = AverageAfter(old.averageScore,
                                                 old.gamesPlayed + 1, score)]
      exp   == user.experience + ExperienceGain(score, playTime)
      u     == [user EXCEPT
                  !.gameStats        = [g \in Games |-> stats],
                  !.totalGamesPlayed = user.totalGamesPlayed + 1,
                  !.totalPlayTime    = FAdd(user.totalPlayTime, playTime),
                  !.experience       = exp,
                  !.level            = LevelAfter(user.level, exp)]
  IN  checkAchievements(u, game, score, playTime, t)

\* the profile after updateGameStats(game, score, playTime) at time t
UpdatedUser(user, game, score, playTime, t) ==
  LET old   == user.gameStats[game]
      stats == [old EXCEPT
                  !.gamesPlayed   = old.gamesPlayed + 1,
                  !.totalPlayTime = FAdd(old.totalPlayTime, playTime),
                  !.lastPlayed    = DateOf(t),
                  !.highScore     = HighScoreAfter(old.highScore, score),
                  !.averageScore  = AverageAfter(old.averageScore,
                                                 old.gamesPlayed + 1, score)]
      exp   == user.experience + ExperienceGain(score, playTime)
      u     == [user EXCEPT
                  !.gameStats[game]  = stats,
                  !.totalGamesPlayed = user.totalGamesPlayed + 1,
                  !.totalPlayTime    = FAdd(user.totalPlayTime, playTime),
                  !.experience       = exp,
                  !.level            = LevelAfter(user.level, exp)]
  IN  checkAchievements(u, game, score, playTime, t)

\* ------------------------------------------------------------------------
\* Persistence: JSON.stringify in saveUser, JSON.parse and the date
\* conversions in loadUser.  A finite number's JSON text parses back to the
\* same double, and strings and booleans to themselves; a Date is written
\* as its ISO string and an undefined property is not written.
\* ------------------------------------------------------------------------

ToJsonValue(v) ==
  IF v.kind = "Date" THEN IsoString(v.ms)
  ELSE IF v.kind = "undefined" THEN Absent
  ELSE v

JsonStringify(user) ==
  [user EXCEPT
     !.joinDate = ToJsonValue(@),
     !.gameStats = [g \in Games |->
                      [user.gameStats[g] EXCEPT !.lastPlayed = ToJsonValue(@)]],
     !.globalAchievements =
        [i \in 1..Len(user.globalAchievements) |->
           [user.globalAchievements[i] EXCEPT !.unlockedAt = ToJsonValue(@)]]]

\* if (x) x = new Date(x): an absent property stays absent and reads as
\* undefined
ReviveOptionalDate(v) == IF v.kind = "string" THEN DateOf(v.ms) ELSE Undefined

\* mutant: the unlockedAt strings of the achievements are not converted
ReviveUser_AchievementStrings(data) ==
  [data EXCEPT
     !.joinDate = DateOf(@.ms),
     !.gameStats = [g \in Games |->
                      [data.gameStats[g] EXCEPT !.lastPlayed = ReviveOptionalDate(@)]],
     !.globalAchievements =
        [i \in 1..Len(data.globalAchievements) |->
           [data.globalAchievements[i] EXCEPT
              !.unlockedAt = IF @.kind = "string" THEN @ ELSE Undefined]]]

\* the profile loadUser adopts from the parsed record
ReviveUser(data) ==
  [data EXCEPT
     !.joinDate = DateOf(@.ms),
     !.gameStats = [g \in Games |->
                      [data.gameStats[g] EXCEPT !.lastPlayed = ReviveOptionalDate(@)]],
     !.globalAchievements =
        [i \in 1..Len(data.globalAchievements) |->
           [data.globalAchievements[i] EXCEPT !.unlockedAt = ReviveOptionalDate(@)]]]

\* what localStorage holds under STORAGE_KEY: nothing, a text loadUser
\* cannot parse or adopt, or the text saveUser wrote
NoItem == [kind |-> "none", value |-> <<>>]

Malformed == [kind |-> "malformed", value |-> <<>>]

StoredJson(user) == [kind |-> "json", value |-> JsonStringify(user)]

\* ------------------------------------------------------------------------
\* getLeaderboard
\* ------------------------------------------------------------------------

NoGame == "undefined"

mockData ==
  << [username |-> "ProGamer123",  score |-> 1250, game |-> "snake"],
     [username |-> "TetrisKing",   score |-> 2500, game |-> "tetris"],
     [username |-> "MemoryMaster", score |-> 15,   game |-> "memory"],
     [username |-> "PongChamp",    score |-> 15,   game |-> "pong"],
     [username |-> "JumpHero",     score |-> 8500, game |-> "platformer"] >>

\* e placed into the descending list after every entry whose score is not
\* lower (Array.prototype.sort is stable)
RECURSIVE InsertDesc(_, _)
InsertDesc(sorted, e) ==
  IF sorted = <<>> THEN <<e>>
  ELSE IF sorted[1].score >= e.score
    THEN <<sorted[1]>> \o InsertDesc(Tail(sorted), e)
  ELSE <<e>> \o sorted

\* entries.sort((a, b) => b.score - a.score)
RECURSIVE SortDesc(_)
SortDesc(entries) ==
  IF entries = <<>> THEN <<>>
  ELSE InsertDesc(SortDesc(SubSeq(entries, 1, Len(entries) - 1)),
                  entries[Len(entries)])

LeaderboardSize == 10

\* mutant: the comparator is a.score - b.score
Leaderboard_Ascending(user, game) ==
  LET entries ==
        IF user # Null /\ game # NoGame /\ user.gameStats[game].highScore > 0
          THEN Append(mockData, [username |-> user.username,
                                 score |-> user.gameStats[game].highScore,
                                 game |-> game])
        ELSE mockData
      sorted == SortDesc(entries)
      ascending == [i \in 1..Len(sorted) |-> sorted[Len(sorted) + 1 - i]]
  IN  SubSeq(ascending, 1, IF Len(sorted) < LeaderboardSize THEN Len(sorted)
                           ELSE LeaderboardSize)

\* mutant: the profile's score is listed when it is not negative
Leaderboard_ZeroListed(user, game) ==
  LET entries ==
        IF user # Null /\ game # NoGame /\ user.gameStats[game].highScore >= 0
          THEN Append(mockData, [username |-> user.username,
                                 score |-> user.gameStats[game].highScore,
                                 game |-> game])
        ELSE mockData
      sorted == SortDesc(entries)
  IN  SubSeq(sorted, 1, IF Len(sorted) < LeaderboardSize THEN Len(sorted)
                        ELSE LeaderboardSize)

\* the list getLeaderboard(game) returns for the current profile user
Leaderboard(user, game) ==
  LET entries ==
        IF user # Null /\ game # NoGame /\ user.gameStats[game].highScore > 0
          THEN Append(mockData, [username |-> user.username,
                                 score |-> user.gameStats[game].highScore,
                                 game |-> game])
        ELSE mockData
      sorted == SortDesc(entries)
  IN  SubSeq(sorted, 1, IF Len(sorted) < LeaderboardSize THEN Len(sorted)
                        ELSE LeaderboardSize)

\* ------------------------------------------------------------------------
\* State
\* ------------------------------------------------------------------------

VARIABLES
  hasWindow,       \* typeof window !== 'undefined' in this runtime
  storageFails,    \* every localStorage call throws (access denied, quota)
  storage,         \* localStorage's item under STORAGE_KEY
  currentUser,     \* UserManager.currentUser
  now,             \* the host clock read by Date.now() and new Date()
  last,            \* the last step: its name, whether it threw to its caller
                   \* (and the argument of getLeaderboard)
  board,           \* the list the last step returned, if it was getLeaderboard
  sessions,        \* per game, the (score, playTime) arguments passed to
                   \* updateGameStats for the profile in currentUser
  storedSessions   \* the same for the profile written in storage

\* GameEngine and the host's animation frames
VARIABLES
  gameLoop,        \* GameEngine.gameLoop holds a callback (TRUE) or null
  animationId,     \* GameEngine.animationId, NoHandle for null
  requested,       \* the handles of the engine's requestAnimationFrame calls
                   \* that wait for the next frame
  frameRun,        \* the handles whose callbacks the host has still to run
                   \* in the frame it is running
  depth,           \* the calls of animate that are inside gameLoop(deltaTime)
  nextHandle,      \* the handle the next requestAnimationFrame returns
  frameCalls,      \* the calls of gameLoop the host made in the current frame
  stopped          \* stop() was called, and start() was not since

userVars == <<hasWindow, storageFails, storage, currentUser, now, board,
              sessions, storedSessions>>

engineVars == <<gameLoop, animationId, requested, frameRun, depth, nextHandle,
                frameCalls, stopped>>

vars == <<hasWindow, storageFails, storage, currentUser, now, last, board,
          sessions, storedSessions, gameLoop, animationId, requested,
          frameRun, depth, nextHandle, frameCalls, stopped>>

NoSessions == [g \in Games |-> <<>>]

\* animationId = null
NoHandle == 0

\* bounds of the exploration
MaxTime == 1

MaxSessions == 2

MaxMeanSessions == 7

MaxGameSessions == 6

MaxHandle == 4

MaxDepth == 2

\* inputs of the explored calls
Usernames == {"Ada"}

SessionInputs == {[score |-> 0 - 500, playTime |-> 0 - 30],
                  [score |-> 1200, playTime |-> 90]}

PlayedGames == {"snake"}

MeanScores == {0, 1200}

\* ------------------------------------------------------------------------
\* saveUser, loadUser
\* ------------------------------------------------------------------------

\* mutant: the item is removed before the write is tried
saveUser_RemovesFirst(user) ==
  IF hasWindow /\ user # Null
    THEN IF storageFails THEN NoItem ELSE StoredJson(user)
  ELSE storage

\* the stored item after saveUser() with the profile user in currentUser;
\* a throwing setItem is caught and leaves the item as it was
saveUser(user) ==
  IF hasWindow /\ user # Null
    THEN IF storageFails THEN storage ELSE StoredJson(user)
  ELSE storage

\* currentUser after loadUser() on a new instance; a throwing getItem or
\* JSON.parse is caught and leaves currentUser null
loadUser ==
  IF storageFails THEN Null
  ELSE IF storage.kind = "json" THEN ReviveUser(storage.value)
  ELSE Null

\* ------------------------------------------------------------------------
\* Operations
\* ------------------------------------------------------------------------

Init ==
  /\ hasWindow \in BOOLEAN
  /\ storageFails = FALSE
  /\ storage = NoItem
  /\ currentUser = Null
  /\ now = 0
  /\ last = [op |-> "constructor", threw |-> FALSE]
  /\ board = <<>>
  /\ sessions = NoSessions
  /\ storedSessions = NoSessions
  /\ gameLoop = FALSE
  /\ animationId = NoHandle
  /\ requested = {}
  /\ frameRun = <<>>
  /\ depth = 0
  /\ nextHandle = 1
  /\ frameCalls = 0
  /\ stopped = FALSE

\* a page load: getInstance() on a fresh module builds the instance, whose
\* constructor calls loadUser() when there is a window
Restart ==
  /\ currentUser' = IF hasWindow THEN loadUser ELSE Null
  /\ sessions' = IF currentUser' = Null THEN NoSessions ELSE storedSessions
  /\ last' = [op |-> "constructor", threw |-> FALSE]
  /\ board' = <<>>
  /\ UNCHANGED <<hasWindow, storageFails, storage, now, storedSessions>>
  /\ UNCHANGED engineVars

createUser(username) ==
  /\ currentUser' = NewUser(username, now)
  /\ storage' = saveUser(currentUser')
  /\ sessions' = NoSessions
  /\ storedSessions' = IF hasWindow /\ ~storageFails THEN NoSessions
                       ELSE storedSessions
  /\ last' = [op |-> "createUser", threw |-> FALSE]
  /\ board' = <<>>
  /\ UNCHANGED <<hasWindow, storageFails, now>>
  /\ UNCHANGED engineVars

getCurrentUser ==
  /\ last' = [op |-> "getCurrentUser", threw |-> FALSE]
  /\ board' = <<>>
  /\ UNCHANGED <<hasWindow, storageFails, storage, currentUser, now,
                 sessions, storedSessions>>
  /\ UNCHANGED engineVars

\* mutant: the test for a missing profile is missing, and reading
\* gameStats of null throws
updateGameStats_NoGuard(game, score, playTime) ==
  /\ IF currentUser = Null
       THEN UNCHANGED <<currentUser, storage, sessions, storedSessions>>
     ELSE /\ currentUser' = UpdatedUser(currentUser, game, score, playTime, now)
          /\ storage' = saveUser(currentUser')
          /\ sessions' = [sessions EXCEPT ![game] =
                            Append(@, [score |-> score, playTime |-> playTime])]
          /\ storedSessions' = IF hasWindow /\ ~storageFails THEN sessions'
                               ELSE storedSessions
  /\ last' = [op |-> "updateGameStats", threw |-> currentUser = Null]
  /\ board' = <<>>
  /\ UNCHANGED <<hasWindow, storageFails, now>>
  /\ UNCHANGED engineVars

updateGameStats(game, score, playTime) ==
  /\ IF currentUser = Null
       THEN UNCHANGED <<currentUser, storage, sessions, storedSessions>>
     ELSE /\ currentUser' = UpdatedUser(currentUser, game, score, playTime, now)
          /\ storage' = saveUser(currentUser')
          /\ sessions' = [sessions EXCEPT ![game] =
                            Append(@, [score |-> score, playTime |-> playTime])]
          /\ storedSessions' = IF hasWindow /\ ~storageFails THEN sessions'
                               ELSE storedSessions
  /\ last' = [op |-> "updateGameStats", threw |-> FALSE]
  /\ board' = <<>>
  /\ UNCHANGED <<hasWindow, storageFails, now>>
  /\ UNCHANGED engineVars

getLeaderboard(game) ==
  /\ board' = Leaderboard(currentUser, game)
  /\ last' = [op |-> "getLeaderboard", threw |-> FALSE, game |-> game]
  /\ UNCHANGED <<hasWindow, storageFails, storage, currentUser, now,
                 sessions, storedSessions>>
  /\ UNCHANGED engineVars

\* currentUser = null, then removeItem outside any try block: a throwing
\* localStorage reaches the caller and the item stays
logout ==
  /\ currentUser' = Null
  /\ sessions' = NoSessions
  /\ storage' = IF hasWindow /\ ~storageFails THEN NoItem ELSE storage
  /\ last' = [op |-> "logout", threw |-> hasWindow /\ storageFails]
  /\ board' = <<>>
  /\ UNCHANGED <<hasWindow, storageFails, now, storedSessions>>
  /\ UNCHANGED engineVars

\* the value of last after a step of the environment, which is no call
Environment == [op |-> "environment", threw |-> FALSE]

\* the host clock advances
Tick ==
  /\ now < MaxTime
  /\ now' = now + 1
  /\ last' = Environment
  /\ board' = <<>>
  /\ UNCHANGED <<hasWindow, storageFails, storage, currentUser,
                 sessions, storedSessions>>
  /\ UNCHANGED engineVars

\* the browser starts or stops refusing localStorage calls
StorageFault ==
  /\ hasWindow
  /\ storageFails' = ~storageFails
  /\ last' = Environment
  /\ board' = <<>>
  /\ UNCHANGED <<hasWindow, storage, currentUser, now, sessions,
                 storedSessions>>
  /\ UNCHANGED engineVars

\* the stored text is replaced from outside by one loadUser cannot adopt
CorruptStorage ==
  /\ hasWindow
  /\ storage # Malformed
  /\ storage' = Malformed
  /\ last' = Environment
  /\ board' = <<>>
  /\ UNCHANGED <<hasWindow, storageFails, currentUser, now, sessions,
                 storedSessions>>
  /\ UNCHANGED engineVars

\* fewer than max sessions recorded on the current profile
SessionsLeft(max) == currentUser # Null => currentUser.totalGamesPlayed < max

Create == \E username \in Usernames : createUser(username)

RecordSession ==
  \E game \in PlayedGames, in \in SessionInputs :
    SessionsLeft(MaxSessions)
      /\ updateGameStats(game, in.score, FromInt(in.playTime))

ViewLeaderboard == \E game \in PlayedGames \cup {NoGame} : getLeaderboard(game)

Next ==
  \/ Create
  \/ getCurrentUser
  \/ RecordSession
  \/ ViewLeaderboard
  \/ logout
  \/ Restart
  \/ Tick
  \/ StorageFault
  \/ CorruptStorage

\* one profile, sessions of one game: the running average
MeanSession ==
  \E score \in MeanScores :
    SessionsLeft(MaxMeanSessions) /\ updateGameStats("snake", score, FromInt(60))

NextMean == Create \/ MeanSession

SpecMean == Init /\ [][NextMean]_vars

\* one profile, sessions of every game
AnyGameSession ==
  \E game \in Games :
    SessionsLeft(MaxGameSessions) /\ updateGameStats(game, 100, FromInt(60))

NextAllGames == Create \/ AnyGameSession

SpecAllGames == Init /\ [][NextAllGames]_vars

Spec == Init /\ [][Next]_vars

\* one profile, sessions of every game on both sides of every threshold of
\* the switch in checkAchievements
MaxThresholdSessions == 2

ThresholdInputs == {[score |-> 9,    playTime |-> 30],
                    [score |-> 10,   playTime |-> 31],
                    [score |-> 999,  playTime |-> 30],
                    [score |-> 1000, playTime |-> 31],
                    [score |-> 4999, playTime |-> 30],
                    [score |-> 5000, playTime |-> 31]}

ThresholdSession ==
  \E game \in Games, in \in ThresholdInputs :
    SessionsLeft(MaxThresholdSessions)
      /\ updateGameStats(game, in.score, FromInt(in.playTime))

NextThresholds == Create \/ ThresholdSession

SpecThresholds == Init /\ [][NextThresholds]_vars

\* profiles whose high scores fall below, on and above the scores of
\* mockData, and the leaderboard of every game and of no game
MaxBoardSessions == 2

BoardGames == {"snake", "memory"}

BoardScores == {0, 15, 2500, 9000}

BoardSession ==
  \E game \in BoardGames, score \in BoardScores :
    SessionsLeft(MaxBoardSessions) /\ updateGameStats(game, score, FromInt(60))

ViewBoard == \E game \in Games \cup {NoGame} : getLeaderboard(game)

NextBoard == Create \/ BoardSession \/ ViewBoard \/ logout

SpecBoard == Init /\ [][NextBoard]_vars

\* one profile, sessions of three games whose play times are tenths of a
\* second (the doubles nearest 0.1, 0.2, 0.3) or 45 seconds
MaxPlayTimeSessions == 3

PlayTimeGames == {"snake", "tetris", "pong"}

PlayTimes == {FDivInt(FromInt(1), 10), FDivInt(FromInt(2), 10),
              FDivInt(FromInt(3), 10), FromInt(45)}

PlayTimeSession ==
  \E game \in PlayTimeGames, playTime \in PlayTimes :
    SessionsLeft(MaxPlayTimeSessions) /\ updateGameStats(game, 100, playTime)

NextPlayTime == Create \/ PlayTimeSession

SpecPlayTime == Init /\ [][NextPlayTime]_vars

\* a store in any state (a profile or none, in memory and in storage, the
\* storage working or not), on which a profile is created and sessions
\* are recorded
MaxScenarioSessions == 2

ScenarioSessions == {[game |-> "snake",  score |-> 1200, playTime |-> 45],
                     [game |-> "tetris", score |-> 5000, playTime |-> 4000]}

ScenarioSession ==
  \E s \in ScenarioSessions :
    SessionsLeft(MaxScenarioSessions)
      /\ updateGameStats(s.game, s.score, FromInt(s.playTime))

NextScenario ==
  \/ Create
  \/ ScenarioSession
  \/ getCurrentUser
  \/ logout
  \/ Restart
  \/ StorageFault
  \/ CorruptStorage

SpecScenario == Init /\ [][NextScenario]_vars

\* ------------------------------------------------------------------------
\* GameEngine: start, stop and animate, and the host's animation frames.
\* The host runs, in one frame, the callbacks of the requests made before
\* the frame, in the order of the requests; a request made during a frame
\* waits for the next one; cancelAnimationFrame removes a request that has
\* not run and does nothing for any other handle.  The callback in gameLoop
\* is the game's code: it may call start() and stop() before it returns.
\* lastTime and deltaTime are left out: no call depends on them.
\* ------------------------------------------------------------------------

\* the host is between frames and no code of the engine runs
Idle == depth = 0 /\ frameRun = <<>>

RECURSIVE HandlesInOrder(_)
HandlesInOrder(handles) ==
  IF handles = {} THEN <<>>
  ELSE LET first == CHOOSE h \in handles : \A other \in handles : h <= other
       IN  <<first>> \o HandlesInOrder(handles \ {first})

\* this.animationId = requestAnimationFrame(this.animate)
requestFrame ==
  /\ nextHandle <= MaxHandle
  /\ animationId' = nextHandle
  /\ requested' = requested \cup {nextHandle}
  /\ nextHandle' = nextHandle + 1

\* a call of animate up to its call of gameLoop, where the callback takes
\* over; with no callback, the whole of animate
animate ==
  IF gameLoop
    THEN /\ depth < MaxDepth
         /\ depth' = depth + 1
         /\ UNCHANGED <<animationId, requested, nextHandle>>
  ELSE requestFrame /\ UNCHANGED depth

\* gameLoop returns into animate, which requests the next frame
animateReturn ==
  /\ depth > 0
  /\ requestFrame
  /\ depth' = depth - 1
  /\ last' = [op |-> "animate", threw |-> FALSE]
  /\ UNCHANGED <<gameLoop, frameRun, frameCalls, stopped>>
  /\ UNCHANGED userVars

setGameLoop ==
  /\ gameLoop' = TRUE
  /\ last' = [op |-> "setGameLoop", threw |-> FALSE]
  /\ UNCHANGED <<animationId, requested, frameRun, depth, nextHandle,
                 frameCalls, stopped>>
  /\ UNCHANGED userVars

start ==
  /\ IF animationId # NoHandle
       THEN UNCHANGED <<animationId, requested, depth, nextHandle>>
     ELSE animate
  /\ stopped' = FALSE
  /\ last' = [op |-> "start", threw |-> FALSE]
  /\ UNCHANGED <<gameLoop, frameRun, frameCalls>>
  /\ UNCHANGED userVars

stop ==
  /\ IF animationId # NoHandle
       THEN /\ requested' = requested \ {animationId}
            /\ frameRun' = SelectSeq(frameRun, LAMBDA h : h # animationId)
            /\ animationId' = NoHandle
     ELSE UNCHANGED <<animationId, requested, frameRun>>
  /\ stopped' = TRUE
  /\ last' = [op |-> "stop", threw |-> FALSE]
  /\ UNCHANGED <<gameLoop, depth, nextHandle, frameCalls>>
  /\ UNCHANGED userVars

\* the host begins a frame with the requests made so far
HostFrame ==
  /\ Idle
  /\ requested # {}
  /\ frameRun' = HandlesInOrder(requested)
  /\ requested' = {}
  /\ frameCalls' = 0
  /\ last' = [op |-> "frame", threw |-> FALSE]
  /\ UNCHANGED <<gameLoop, animationId, depth, nextHandle, stopped>>
  /\ UNCHANGED userVars

\* the host calls animate for the next request of the frame
HostCallback ==
  /\ depth = 0
  /\ frameRun # <<>>
  /\ frameRun' = Tail(frameRun)
  /\ animate
  /\ frameCalls' = IF gameLoop THEN frameCalls + 1 ELSE frameCalls
  /\ last' = [op |-> "callback", threw |-> FALSE]
  /\ UNCHANGED <<gameLoop, stopped>>
  /\ UNCHANGED userVars

\* start() and stop() called by the game between frames
CallStart == Idle /\ start

CallStop == Idle /\ stop

\* start() and stop() called by the callback in gameLoop
CallbackStart == depth > 0 /\ start

CallbackStop == depth > 0 /\ stop

NextEngine ==
  \/ setGameLoop
  \/ CallStart
  \/ CallStop
  \/ CallbackStart
  \/ CallbackStop
  \/ animateReturn
  \/ HostFrame
  \/ HostCallback

SpecEngine == Init /\ [][NextEngine]_vars

\* ------------------------------------------------------------------------
\* Properties
\* ------------------------------------------------------------------------

ScoresOf(g) == [i \in 1..Len(sessions[g]) |-> sessions[g][i].score]

RECURSIVE SeqMax(_)
SeqMax(q) ==
  IF Len(q) = 1 THEN q[1]
  ELSE LET m == SeqMax(Tail(q)) IN IF q[1] > m THEN q[1] ELSE m

RECURSIVE SeqSum(_)
SeqSum(q) == IF q = <<>> THEN 0 ELSE q[1] + SeqSum(Tail(q))

AchievementOf(user, id) ==
  user.globalAchievements[CHOOSE i \in 1..Len(user.globalAchievements) :
                            user.globalAchievements[i].id = id]

\* this step is an updateGameStats call on an active profile
UpdateStep == currentUser # Null /\ last'.op = "updateGameStats"

\* the game of an UpdateStep and the arguments it passed
StepGame == CHOOSE g \in Games : Len(sessions'[g]) = Len(sessions[g]) + 1

StepInput == sessions'[StepGame][Len(sessions'[StepGame])]

\* C1, as claimed: after any calls on one game kind, that game's highScore
\* is the maximum of the scores passed.
C1_HighScoreIsMaxScore ==
  currentUser # Null =>
    \A g \in Games :
      sessions[g] # <<>> => currentUser.gameStats[g].highScore = SeqMax(ScoresOf(g))

\* C1, amended: highScore starts at 0, so it is the maximum of 0 and the
\* scores passed (0 when every score passed was negative).
C1_HighScoreIsMaxOfZeroAndScores ==
  currentUser # Null =>
    \A g \in Games :
      currentUser.gameStats[g].highScore = SeqMax(<<0>> \o ScoresOf(g))

C1_Witness ==
  /\ currentUser # Null
  /\ last.op = "updateGameStats"
  /\ ScoresOf("snake") = <<1200, 0 - 500>>
  /\ currentUser.gameStats["snake"].highScore = 1200

\* C2, as claimed: every call on an active profile leaves experience no
\* lower, and raises it by floor(score/10) + floor(playTime/60).
C2_ExperienceNeverDecreases ==
  [][UpdateStep =>
       /\ currentUser'.experience >= currentUser.experience
       /\ currentUser'.experience = currentUser.experience
            + (StepInput.score \div 10)
            + FFloor(FDivInt(StepInput.playTime, 60))]_vars

\* C2, amended: every call changes experience by exactly
\* floor(score/10) + floor(playTime/60); experience does not decrease when
\* score and playTime are not negative.
C2_ExperienceChange ==
  [][UpdateStep =>
       /\ currentUser'.experience = currentUser.experience
            + (StepInput.score \div 10)
            + FFloor(FDivInt(StepInput.playTime, 60))
       /\ (StepInput.score >= 0 /\ ~StepInput.playTime.neg
            => currentUser'.experience >= currentUser.experience)]_vars

C2_Witness ==
  /\ currentUser # Null
  /\ last.op = "updateGameStats"
  /\ sessions["snake"] = << [score |-> 1200, playTime |-> FromInt(90)],
                            [score |-> 1200, playTime |-> FromInt(90)] >>
  /\ currentUser.experience = 242

\* C3: over the calls on one profile level is at least 1 and never
\* decreases; a call that raises it sets it to floor(experience/100) + 1 of
\* the experience after the call; a call whose formula value is below the
\* level leaves the level.
C3_LevelMonotone ==
  [][UpdateStep =>
       LET formula == (currentUser'.experience \div 100) + 1
       IN  /\ currentUser.level >= 1
           /\ currentUser'.level >= currentUser.level
           /\ (currentUser'.level > currentUser.level
                 => currentUser'.level = formula)
           /\ (formula < currentUser.level
                 => currentUser'.level = currentUser.level)]_vars

\* a call lowered experience below the level's range and the level stayed
C3_Witness ==
  /\ currentUser # Null
  /\ last.op = "updateGameStats"
  /\ currentUser.level = 2
  /\ currentUser.experience < 100

\* C4: an unlocked achievement stays unlocked, with the unlockedAt of its
\* first unlock, through every later call on the profile.
C4_UnlockedStays ==
  [][(currentUser # Null /\ last'.op \notin {"createUser", "logout", "constructor"}) =>
       /\ currentUser' # Null
       /\ \A i \in 1..Len(currentUser.globalAchievements) :
            currentUser.globalAchievements[i].unlocked =>
              /\ currentUser'.globalAchievements[i].unlocked
              /\ currentUser'.globalAchievements[i].unlockedAt
                   = currentUser.globalAchievements[i].unlockedAt]_vars

\* speed_demon was unlocked at time 0 and its condition met again at time 1
C4_Witness ==
  /\ currentUser # Null
  /\ last.op = "updateGameStats"
  /\ ScoresOf("snake") = <<1200, 1200>>
  /\ currentUser.gameStats["snake"].lastPlayed = DateOf(1)
  /\ AchievementOf(currentUser, "speed_demon").unlocked
  /\ AchievementOf(currentUser, "speed_demon").unlockedAt = DateOf(0)

\* C5: no operation throws to its caller, whatever the state of the store
\* and of the storage.
C5_NoOperationThrows == ~last.threw

\* C6: after a createUser or updateGameStats whose write succeeded, a newly
\* constructed store loads from storage a profile equal to the one in
\* memory.
C6_RoundTrip ==
  (/\ hasWindow
   /\ ~storageFails
   /\ currentUser # Null
   /\ last.op \in {"createUser", "updateGameStats"})
    => loadUser = currentUser

\* a profile with a played game and unlocked achievements was written
C6_Witness ==
  /\ hasWindow
  /\ ~storageFails
  /\ currentUser # Null
  /\ last.op = "updateGameStats"
  /\ storage.kind = "json"
  /\ AchievementOf(currentUser, "speed_demon").unlocked
  /\ currentUser.gameStats["snake"].gamesPlayed = 2

\* C7: after logout there is no current profile and no stored record, and
\* neither comes back through getCurrentUser, getLeaderboard,
\* updateGameStats or the construction of a new store.
C7_LogoutClears ==
  /\ [](last.op = "logout" => currentUser = Null /\ storage.kind # "json")
  /\ [][(/\ currentUser = Null
         /\ storage.kind # "json"
         /\ last'.op \in {"getCurrentUser", "getLeaderboard",
                          "updateGameStats", "constructor"})
          => currentUser' = Null /\ storage'.kind # "json"]_vars

\* C8: updateGameStats with no active profile changes neither the profile
\* nor the storage and raises no error.
C8_NoProfileNoEffect ==
  [][(currentUser = Null /\ last'.op = "updateGameStats") =>
       /\ currentUser' = Null
       /\ storage' = storage
       /\ ~last'.threw]_vars

\* the call was made with no profile while storage held a record
C8_Witness ==
  /\ currentUser = Null
  /\ last.op = "updateGameStats"
  /\ storage.kind = "json"

\* |averageScore * gamesPlayed - sum| as an exact number units * 2^e
MeanError(averageScore, gamesPlayed, sum) ==
  LET E == IF averageScore.e < 0 THEN averageScore.e ELSE 0
      A == ShiftLeft(MulSmall(averageScore.m, gamesPlayed), averageScore.e - E)
      B == ShiftLeft(DigitsOf(Abs(sum)), 0 - E)
  IN  [units |-> IF averageScore.neg = (sum < 0) \/ A = <<>> \/ B = <<>>
                   THEN IF LessDigits(A, B) THEN SubDigits(B, A)
                        ELSE SubDigits(A, B)
                 ELSE AddDigits(A, B),
       e |-> E]

\* x.units * 2^(x.e) <= k * 2^(-p), k a natural
ErrorAtMost(x, k, p) ==
  LET shift == 0 - p - x.e
  IN  IF shift >= 0
        THEN ~LessDigits(ShiftLeft(DigitsOf(k), shift), x.units)
      ELSE ~LessDigits(DigitsOf(k), ShiftLeft(x.units, 0 - shift))

\* C9, as claimed: after every call averageScore times gamesPlayed, computed
\* as the program computes, is the sum of the scores passed for that game.
C9_AverageTimesCountIsSum ==
  currentUser # Null =>
    \A g \in Games :
      sessions[g] # <<>> =>
        FMulInt(currentUser.gameStats[g].averageScore, Len(sessions[g]))
          = FromInt(SeqSum(ScoresOf(g)))

\* C9, amended: averageScore is the mean within floating-point tolerance:
\* |averageScore * gamesPlayed - sum| is at most
\* gamesPlayed^2 * max|score| * 2^-50.
C9_AverageWithinTolerance ==
  currentUser # Null =>
    \A g \in Games :
      sessions[g] # <<>> =>
        LET n == currentUser.gameStats[g].gamesPlayed
            largest == SeqMax([i \in 1..Len(sessions[g]) |-> Abs(sessions[g][i].score)])
        IN  /\ n = Len(sessions[g])
            /\ ErrorAtMost(MeanError(currentUser.gameStats[g].averageScore, n,
                                     SeqSum(ScoresOf(g))),
                           n * n * largest, 50)

\* seven scores whose rounded running average times 7 is not their sum
C9_Witness ==
  /\ currentUser # Null
  /\ Len(sessions["snake"]) = 7
  /\ FMulInt(currentUser.gameStats["snake"].averageScore, 7)
       # FromInt(SeqSum(ScoresOf("snake")))

\* C10: game_master is unlocked exactly when each of the five games has
\* gamesPlayed > 0.
C10_GameMasterIffAllPlayed ==
  currentUser # Null =>
    (AchievementOf(currentUser, "game_master").unlocked
       <=> \A g \in Games : currentUser.gameStats[g].gamesPlayed > 0)

\* the fifth distinct game was the fifth session
C10_Witness ==
  /\ currentUser # Null
  /\ last.op = "updateGameStats"
  /\ currentUser.totalGamesPlayed = 5
  /\ AchievementOf(currentUser, "game_master").unlocked

\* the threshold the claim C11 gives for the per-game achievement of game g,
\* on one recorded session s
C11_Meets(g, s) ==
  \/ g = "snake"      /\ s.score >= 1000
  \/ g = "tetris"     /\ s.score >= 1000
  \/ g = "pong"       /\ s.score >= 10
  \/ g = "memory"     /\ FLessEq(s.playTime, FromInt(30))
  \/ g = "platformer" /\ s.score >= 5000

C11_AchievementFor ==
  [snake |-> "speed_demon", tetris |-> "tetris_master",
   pong |-> "pong_champion", memory |-> "memory_champion",
   platformer |-> "platformer_pro"]

C12_PlaceBeforeSort(entry) ==
  IF \E k \in 1..Len(mockData) : mockData[k] = entry
    THEN CHOOSE k \in 1..Len(mockData) : mockData[k] = entry
  ELSE Len(mockData) + 1

\* C12: the list getLeaderboard returns is sorted by score in descending
\* order, has at most 10 entries, and entries of equal score keep the order
\* they had before sorting.
C12_SortedCappedStable ==
  last.op = "getLeaderboard" =>
    /\ Len(board) <= 10
    /\ \A i, j \in 1..Len(board) :
         i < j =>
           /\ board[i].score >= board[j].score
           /\ (board[i].score = board[j].score
                 => C12_PlaceBeforeSort(board[i]) < C12_PlaceBeforeSort(board[j]))

\* the profile's score ties with two entries of mockData and is listed
\* after both
C12_Witness ==
  /\ last.op = "getLeaderboard"
  /\ Len(board) = 6
  /\ board[4].username = "MemoryMaster"
  /\ board[5].username = "PongChamp"
  /\ board[6] = [username |-> "Ada", score |-> 15, game |-> "memory"]

\* the entries of a list and how often entry occurs in it
C16_Entries(list) == {list[i] : i \in 1..Len(list)}

C16_Count(list, entry) == Cardinality({i \in 1..Len(list) : list[i] = entry})

\* C16: the list of getLeaderboard(game) holds the profile's entry (its
\* username, its highScore for game, tagged game), once, exactly when a
\* profile is active, game is given and that highScore is above zero, and
\* is otherwise exactly the five entries of mockData; the call changes
\* neither the profile nor the storage.
C16_ProfileEntry ==
  [][last'.op = "getLeaderboard" =>
       LET game == last'.game
           listed == /\ currentUser # Null
                     /\ game # NoGame
                     /\ currentUser.gameStats[game].highScore > 0
           entry == [username |-> currentUser.username,
                     score |-> currentUser.gameStats[game].highScore,
                     game |-> game]
       IN  /\ currentUser' = currentUser
           /\ storage' = storage
           /\ \A k \in 1..Len(mockData) : C16_Count(board', mockData[k]) = 1
           /\ IF listed
                THEN /\ C16_Count(board', entry) = 1
                     /\ Len(board') = Len(mockData) + 1
              ELSE Len(board') = Len(mockData)]_vars

\* the profile is listed in the list of the game it has a high score in,
\* after a session of another game with score 0
C16_Witness ==
  /\ currentUser # Null
  /\ last.op = "getLeaderboard"
  /\ last.game = "snake"
  /\ currentUser.gameStats["memory"].gamesPlayed = 1
  /\ currentUser.gameStats["memory"].highScore = 0
  /\ [username |-> "Ada", score |-> 2500, game |-> "snake"] \in C16_Entries(board)

\* the requests of the engine that the host has neither run nor cancelled
PendingRequests == requested \cup {frameRun[i] : i \in 1..Len(frameRun)}

\* C13: after any call of stop(), between frames or from inside the
\* callback, no frame request is left pending and the callback is not
\* called again until start() is called.
C13_StopIsImmediate ==
  /\ [](stopped => PendingRequests = {})
  /\ [][(stopped /\ stopped') => depth' <= depth]_vars

\* C20: under any interleaving of start(), stop() and frame callbacks at
\* most one frame request of the engine is pending, the pending request is
\* the one in animationId, the host calls the callback at most once per
\* frame, and start() on an engine with a request recorded changes nothing.
C20_SingleRequest ==
  /\ [](/\ Cardinality(PendingRequests) <= 1
        /\ \A h \in PendingRequests : h = animationId
        /\ frameCalls <= 1)
  /\ [][(last'.op = "start" /\ animationId # NoHandle)
          => UNCHANGED <<animationId, requested, frameRun, depth,
                         nextHandle>>]_vars

\* the profile is the one createUser made, with one call
\* updateGameStats("snake", 1200, 45) recorded on it since
C14_Scenario ==
  /\ currentUser # Null
  /\ last.op = "updateGameStats"
  /\ sessions = [NoSessions EXCEPT
                   !["snake"] = << [score |-> 1200, playTime |-> FromInt(45)] >>]

\* C14: from any state of the store, createUser("Ada") followed by
\* updateGameStats("snake", 1200, 45) leaves a profile with snake.highScore
\* 1200, snake.gamesPlayed 1, totalGamesPlayed 1, experience 120, level 2,
\* first_game and speed_demon unlocked and every other achievement locked.
C14_AdaPlaysSnake ==
  C14_Scenario =>
    /\ currentUser.username = "Ada"
    /\ currentUser.gameStats["snake"].highScore = 1200
    /\ currentUser.gameStats["snake"].gamesPlayed = 1
    /\ currentUser.totalGamesPlayed = 1
    /\ currentUser.experience = 120
    /\ currentUser.level = 2
    /\ \A i \in 1..Len(currentUser.globalAchievements) :
         currentUser.globalAchievements[i].unlocked
           <=> currentUser.globalAchievements[i].id \in {"first_game", "speed_demon"}

\* the scenario ran on a store whose storage refuses writes and holds an
\* earlier profile with a tetris session
C14_Witness ==
  /\ C14_Scenario
  /\ hasWindow
  /\ storageFails
  /\ storage.kind = "json"
  /\ storedSessions["tetris"] # <<>>
  /\ currentUser.experience = 120

\* C15: a createUser or updateGameStats whose storage write fails raises no
\* error, leaves the stored item as it was and has its full effect on the
\* profile in memory (for updateGameStats the game's statistics, the
\* totals, experience, level and the achievements whose conditions hold);
\* getCurrentUser and later calls see that profile.
C15_WriteFailureKeepsMemory ==
  [][(hasWindow /\ storageFails) =>
       /\ last'.op = "createUser" =>
            /\ ~last'.threw
            /\ storage' = storage
            /\ currentUser' # Null
            /\ currentUser'.username \in Usernames
            /\ currentUser'.level = 1
            /\ currentUser'.experience = 0
            /\ currentUser'.totalGamesPlayed = 0
            /\ currentUser'.totalPlayTime = FromInt(0)
            /\ \A g \in Games : currentUser'.gameStats[g].gamesPlayed = 0
            /\ \A i \in 1..Len(currentUser'.globalAchievements) :
                 ~currentUser'.globalAchievements[i].unlocked
       /\ UpdateStep =>
            LET g   == StepGame
                in  == StepInput
                old == currentUser.gameStats[g]
                new == currentUser'.gameStats[g]
                exp == currentUser.experience
                         + (in.score \div 10)
                         + FFloor(FDivInt(in.playTime, 60))
            IN  /\ ~last'.threw
                /\ storage' = storage
                /\ new.gamesPlayed = old.gamesPlayed + 1
                /\ new.totalPlayTime = FAdd(old.totalPlayTime, in.playTime)
                /\ new.lastPlayed = DateOf(now)
                /\ new.highScore = IF in.score > old.highScore THEN in.score
                                   ELSE old.highScore
                /\ new.averageScore = AverageAfter(old.averageScore,
                                                   old.gamesPlayed + 1, in.score)
                /\ currentUser'.totalGamesPlayed = currentUser.totalGamesPlayed + 1
                /\ currentUser'.totalPlayTime
                     = FAdd(currentUser.totalPlayTime, in.playTime)
                /\ currentUser'.experience = exp
                /\ currentUser'.level
                     = IF (exp \div 100) + 1 > currentUser.level
                         THEN (exp \div 100) + 1 ELSE currentUser.level
                /\ (currentUser'.totalGamesPlayed = 1
                      => AchievementOf(currentUser', "first_game").unlocked)
                /\ (C11_Meets(g, in)
                      => AchievementOf(currentUser', C11_AchievementFor[g]).unlocked)
                /\ (FLessEq(FromInt(3600), currentUser'.totalPlayTime)
                      => AchievementOf(currentUser', "dedicated_player").unlocked)
       /\ last'.op = "getCurrentUser" => currentUser' = currentUser]_vars

\* two sessions were recorded while storage refused the writes: the
\* profile in memory has both, the stored record is the one of createUser
C15_Witness ==
  /\ hasWindow
  /\ storageFails
  /\ currentUser # Null
  /\ last.op = "updateGameStats"
  /\ storage.kind = "json"
  /\ storedSessions = NoSessions
  /\ currentUser.totalGamesPlayed = 2
  /\ AchievementOf(currentUser, "speed_demon").unlocked
  /\ AchievementOf(currentUser, "dedicated_player").unlocked
  /\ ~AchievementOf(ReviveUser(storage.value), "speed_demon").unlocked

\* C17: every createUser assigns a fresh id, different from the id of every
\* profile an earlier createUser of the store made (here: of the profile it
\* replaces and of the profile in the stored record), whatever the time
\* between the calls; updateGameStats leaves the id.
C17_FreshId ==
  [][/\ (last'.op = "createUser" /\ currentUser # Null)
          => currentUser'.id # currentUser.id
     /\ (last'.op = "createUser" /\ storage.kind = "json")
          => currentUser'.id # storage.value.id
     /\ UpdateStep => currentUser'.id = currentUser.id]_vars

\* the per-game totalPlayTime values of the profile, in the order of the
\* keys of gameStats
C18_GameTimes(user) ==
  [i \in 1..Len(GameKinds) |-> user.gameStats[GameKinds[i]].totalPlayTime]

\* their sum added up in double arithmetic, in that order
RECURSIVE C18_DoubleSum(_)
C18_DoubleSum(values) ==
  IF values = <<>> THEN FZero
  ELSE FAdd(C18_DoubleSum(SubSeq(values, 1, Len(values) - 1)),
            values[Len(values)])

\* the non-negative double x as a natural number of units 2^E, E <= x.e
C18_Units(x, E) == ShiftLeft(x.m, x.e - E)

RECURSIVE C18_UnitsSum(_, _)
C18_UnitsSum(values, E) ==
  IF values = <<>> THEN <<>>
  ELSE AddDigits(C18_UnitsSum(Tail(values), E), C18_Units(values[1], E))

\* total is the sum of the non-negative values as a real number
C18_ExactSum(total, values) ==
  LET exps == {total.e} \cup {values[i].e : i \in 1..Len(values)}
      E    == CHOOSE e \in exps : \A other \in exps : e <= other
  IN  C18_Units(total, E) = C18_UnitsSum(values, E)

C18_GamesTotal(user) ==
  user.totalGamesPlayed
    = SeqSum([i \in 1..Len(GameKinds) |-> user.gameStats[GameKinds[i]].gamesPlayed])

\* every play time recorded on the profile is a whole number of seconds
C18_WholeSeconds ==
  \A g \in Games : \A i \in 1..Len(sessions[g]) : sessions[g][i].playTime.e >= 0

\* C18, as claimed: after any calls on a created profile totalGamesPlayed
\* is the sum of the five gamesPlayed and totalPlayTime is the sum of the
\* five per-game totalPlayTime values (as a real number, or added up as
\* doubles).
C18_TotalsAreSums ==
  currentUser # Null =>
    /\ C18_GamesTotal(currentUser)
    /\ \/ currentUser.totalPlayTime = C18_DoubleSum(C18_GameTimes(currentUser))
       \/ C18_ExactSum(currentUser.totalPlayTime, C18_GameTimes(currentUser))

\* C18, amended: totalGamesPlayed is the sum of the five gamesPlayed, and
\* when every play time passed is a whole number of seconds totalPlayTime
\* is the sum of the five per-game values.
C18_TotalsAreSumsOfWholeSeconds ==
  currentUser # Null =>
    /\ C18_GamesTotal(currentUser)
    /\ C18_WholeSeconds =>
         /\ currentUser.totalPlayTime = C18_DoubleSum(C18_GameTimes(currentUser))
         /\ C18_ExactSum(currentUser.totalPlayTime, C18_GameTimes(currentUser))

\* three sessions of 45 seconds on three games
C18_Witness ==
  /\ currentUser # Null
  /\ last.op = "updateGameStats"
  /\ C18_WholeSeconds
  /\ \A g \in PlayTimeGames : currentUser.gameStats[g].gamesPlayed = 1
  /\ currentUser.totalPlayTime = FromInt(135)

\* C19: updateGameStats(game, score, playTime) on an active profile leaves
\* the GameStats of the four other games and the profile's id, username,
\* avatar and joinDate as they were, and raises the played game's
\* gamesPlayed and the profile's totalGamesPlayed by exactly 1.
C19_Frame ==
  [][UpdateStep =>
       /\ \A other \in Games \ {StepGame} :
            currentUser'.gameStats[other] = currentUser.gameStats[other]
       /\ currentUser'.id = currentUser.id
       /\ currentUser'.username = currentUser.username
       /\ currentUser'.avatar = currentUser.avatar
       /\ currentUser'.joinDate = currentUser.joinDate
       /\ currentUser'.gameStats[StepGame].gamesPlayed
            = currentUser.gameStats[StepGame].gamesPlayed + 1
       /\ currentUser'.totalGamesPlayed = currentUser.totalGamesPlayed + 1]_vars

\* a session of memory and a session of platformer were recorded, each
\* game keeping its own statistics
C19_Witness ==
  /\ currentUser # Null
  /\ last.op = "updateGameStats"
  /\ currentUser.totalGamesPlayed = 2
  /\ currentUser.gameStats["memory"].gamesPlayed = 1
  /\ currentUser.gameStats["memory"].highScore = 9
  /\ currentUser.gameStats["platformer"].gamesPlayed = 1
  /\ currentUser.gameStats["platformer"].highScore = 5000
  /\ currentUser.gameStats["snake"] = getDefaultGameStats
  /\ currentUser.joinDate = DateOf(0)

====
